---------------------------- MODULE Spec2Model ----------------------------
(***************************************************************************)
(* gt-audit: the detection-matching and issue-classification engine, the  *)
(* per-image audit of both detectors, and the aggregation of run_validate. *)
(*                                                                         *)
(* Numbers.  The program computes in f32.  Box coordinates are modelled on *)
(* a dyadic grid: a coordinate is an integer k standing for k/Grid.  On    *)
(* such inputs every sum, difference, halving and product of the IoU       *)
(* computation is exact in f32, so corners are kept as integers in units   *)
(* of 1/(2*Grid), areas in units of 1/(2*Grid)^2, and an IoU as the exact  *)
(* quotient <<num, den>> in lowest terms.  The one rounded operation, the  *)
(* final division, is monotone, and the literal 0.3 is the f32 nearest to  *)
(* 3/10, so comparing the exact quotient with 3/10 decides as the code     *)
(* does.  Confidences are integers standing for hundredths.                *)
(*                                                                         *)
(* Strings are sequences of one-character strings; Option<T> is a sequence *)
(* of length at most one (None = <<>>, Some(v) = <<v>>).                   *)
(***************************************************************************)
EXTENDS Integers, Sequences, FiniteSets, TLC

\* ------------------------------------------------------------------------
\* Bounds of the model
\* ------------------------------------------------------------------------
MaxImages == 2

MaxLines == 2

MaxDets == 2

\* ------------------------------------------------------------------------
\* Helpers on sequences and numbers
\* ------------------------------------------------------------------------
Max(a, b) == IF a >= b THEN a ELSE b

Min(a, b) == IF a <= b THEN a ELSE b

RECURSIVE GCD(_, _)
GCD(a, b) == IF b = 0 THEN a ELSE GCD(b, a % b)

None == << >>

Some(v) == << v >>

SeqsUpTo(S, n) == UNION { [1..k -> S] : k \in 0..n }

RECURSIVE SumSeq(_)
SumSeq(s) == IF s = << >> THEN 0 ELSE Head(s) + SumSeq(Tail(s))

\* ------------------------------------------------------------------------
\* models.rs: BoundingBox
\* ------------------------------------------------------------------------
Grid == 8

BoundingBox(x, y, w, h) == [x |-> x, y |-> y, w |-> w, h |-> h]

\* corners (x1, y1, x2, y2), in units of 1/(2*Grid)
to_xyxy(b) == << 2 * b.x - b.w, 2 * b.y - b.h, 2 * b.x + b.w, 2 * b.y + b.h >>

\* an f32 quotient num/den with den > 0, in lowest terms
Quot(num, den) ==
    LET g == GCD(num, den) IN << num \div g, den \div g >>

Zero == << 0, 1 >>

\* comparisons of two quotients (denominators are positive)
QGt(r, s) == r[1] * s[2] > s[1] * r[2]

QGe(r, s) == r[1] * s[2] >= s[1] * r[2]

\* the intersection computed without .max(0.0)
iou_no_clamp(a, b) ==
    LET A == to_xyxy(a)
        B == to_xyxy(b)
        x1 == Max(A[1], B[1])
        y1 == Max(A[2], B[2])
        x2 == Min(A[3], B[3])
        y2 == Min(A[4], B[4])
        inter == (x2 - x1) * (y2 - y1)
        area_a == (A[3] - A[1]) * (A[4] - A[2])
        area_b == (B[3] - B[1]) * (B[4] - B[2])
        union == area_a + area_b - inter
    IN  IF union > 0 THEN Quot(inter, union) ELSE Zero

\* the union computed without subtracting the intersection
iou_sum_of_areas(a, b) ==
    LET A == to_xyxy(a)
        B == to_xyxy(b)
        x1 == Max(A[1], B[1])
        y1 == Max(A[2], B[2])
        x2 == Min(A[3], B[3])
        y2 == Min(A[4], B[4])
        inter == Max(x2 - x1, 0) * Max(y2 - y1, 0)
        area_a == (A[3] - A[1]) * (A[4] - A[2])
        area_b == (B[3] - B[1]) * (B[4] - B[2])
        union == area_a + area_b
    IN  IF union > 0 THEN Quot(inter, union) ELSE Zero

iou(a, b) ==
    LET A == to_xyxy(a)
        B == to_xyxy(b)
        x1 == Max(A[1], B[1])
        y1 == Max(A[2], B[2])
        x2 == Min(A[3], B[3])
        y2 == Min(A[4], B[4])
        inter == Max(x2 - x1, 0) * Max(y2 - y1, 0)
        area_a == (A[3] - A[1]) * (A[4] - A[2])
        area_b == (B[3] - B[1]) * (B[4] - B[2])
        union == area_a + area_b - inter
    IN  IF union > 0 THEN Quot(inter, union) ELSE Zero

\* ------------------------------------------------------------------------
\* Strings
\* ------------------------------------------------------------------------
Upper == << "A", "B", "C", "D", "E", "F", "G", "H", "I", "J", "K", "L", "M",
            "N", "O", "P", "Q", "R", "S", "T", "U", "V", "W", "X", "Y", "Z" >>

Lower == << "a", "b", "c", "d", "e", "f", "g", "h", "i", "j", "k", "l", "m",
            "n", "o", "p", "q", "r", "s", "t", "u", "v", "w", "x", "y", "z" >>

to_lowercase_char(c) ==
    IF \E i \in 1..Len(Upper) : Upper[i] = c
    THEN Lower[CHOOSE i \in 1..Len(Upper) : Upper[i] = c]
    ELSE c

to_lowercase(s) == [i \in 1..Len(s) |-> to_lowercase_char(s[i])]

\* str::contains: pat occurs in s as a contiguous substring
contains(s, pat) ==
    \E k \in 0..(Len(s) - Len(pat)) :
        \A i \in 1..Len(pat) : s[k + i] = pat[i]

\* ------------------------------------------------------------------------
\* detector.rs: the class-equivalence heuristic
\* ------------------------------------------------------------------------
S_clothing == << "c", "l", "o", "t", "h", "i", "n", "g" >>
S_dress == << "d", "r", "e", "s", "s" >>
S_suit == << "s", "u", "i", "t" >>
S_jacket == << "j", "a", "c", "k", "e", "t" >>
S_coat == << "c", "o", "a", "t" >>
S_top == << "t", "o", "p" >>
S_shirt == << "s", "h", "i", "r", "t" >>
S_blouse == << "b", "l", "o", "u", "s", "e" >>
S_footwear == << "f", "o", "o", "t", "w", "e", "a", "r" >>
S_boot == << "b", "o", "o", "t" >>
S_shoe == << "s", "h", "o", "e" >>
S_sandal == << "s", "a", "n", "d", "a", "l" >>
S_high_heels == << "h", "i", "g", "h", " ", "h", "e", "e", "l", "s" >>
S_sneaker == << "s", "n", "e", "a", "k", "e", "r" >>
S_bag == << "b", "a", "g" >>
S_handbag == << "h", "a", "n", "d", "b", "a", "g" >>
S_backpack == << "b", "a", "c", "k", "p", "a", "c", "k" >>
S_briefcase == << "b", "r", "i", "e", "f", "c", "a", "s", "e" >>
S_luggage_and_bags == << "l", "u", "g", "g", "a", "g", "e", " ", "a", "n", "d",
                         " ", "b", "a", "g", "s" >>
S_purse == << "p", "u", "r", "s", "e" >>
S_pants == << "p", "a", "n", "t", "s" >>
S_jeans == << "j", "e", "a", "n", "s" >>
S_trousers == << "t", "r", "o", "u", "s", "e", "r", "s" >>
S_shorts == << "s", "h", "o", "r", "t", "s" >>
S_person == << "p", "e", "r", "s", "o", "n" >>
S_human == << "h", "u", "m", "a", "n" >>
S_man == << "m", "a", "n" >>
S_woman == << "w", "o", "m", "a", "n" >>
S_people == << "p", "e", "o", "p", "l", "e" >>
S_boy == << "b", "o", "y" >>
S_girl == << "g", "i", "r", "l" >>

groups ==
    << << S_clothing, S_dress, S_suit, S_jacket, S_coat, S_top, S_shirt, S_blouse >>,
       << S_footwear, S_boot, S_shoe, S_sandal, S_high_heels, S_sneaker >>,
       << S_bag, S_handbag, S_backpack, S_briefcase, S_luggage_and_bags, S_purse >>,
       << S_pants, S_jeans, S_trousers, S_shorts >>,
       << S_person, S_human, S_man, S_woman, S_people, S_boy, S_girl >> >>

\* membership by c.contains(g) alone
in_group_contains_only(c, group) ==
    \E k \in 1..Len(group) : contains(c, group[k])

\* group.iter().any(|&g| c.contains(g) || g.contains(&c))
in_group(c, group) ==
    \E k \in 1..Len(group) : contains(c, group[k]) \/ contains(group[k], c)

classes_equivalent(class1, class2) ==
    LET c1 == to_lowercase(class1)
        c2 == to_lowercase(class2)
    IN  \/ c1 = c2
        \/ \E g \in 1..Len(groups) : in_group(c1, groups[g]) /\ in_group(c2, groups[g])

\* ------------------------------------------------------------------------
\* models.rs: Annotation, Detection, Issue, ImageResult
\* ------------------------------------------------------------------------
Annotation(class_id, class_name, bbox, line_num) ==
    [class_id |-> class_id, class_name |-> class_name, bbox |-> bbox,
     line_num |-> line_num]

Detection(class_name, confidence, bbox) ==
    [class_name |-> class_name, confidence |-> confidence, bbox |-> bbox]

Issue(image, severity, issue_type, description, gt_class, detected_class, confidence, iou_, explanation, line_num) ==
    [image |-> image, severity |-> severity, issue_type |-> issue_type,
     description |-> description, gt_class |-> gt_class,
     detected_class |-> detected_class, confidence |-> confidence,
     iou |-> iou_, explanation |-> explanation, line_num |-> line_num]

\* ImageResult::new
ImageResult_new(filename, gt_count, detection_count) ==
    [filename |-> filename, gt_count |-> gt_count,
     detection_count |-> detection_count, issues |-> << >>]

\* the issue put at the front of the list
add_issue_front(result, issue) == [result EXCEPT !.issues = << issue >> \o @]

\* ImageResult::add_issue
add_issue(result, issue) == [result EXCEPT !.issues = Append(@, issue)]

has_issues(result) == result.issues # << >>

\* ------------------------------------------------------------------------
\* detector.rs: non-maximum suppression
\* ------------------------------------------------------------------------
RECURSIVE insert_asc(_, _)
\* the insertion under |a, b| a.confidence.partial_cmp(&b.confidence):
\* confidence ascending
insert_asc(sorted, d) ==
    IF sorted = << >> THEN << d >>
    ELSE IF Head(sorted).confidence <= d.confidence
         THEN << Head(sorted) >> \o insert_asc(Tail(sorted), d)
         ELSE << d >> \o sorted

RECURSIVE insert_desc_before_equal(_, _)
\* the insertion of an unstable sort: d goes before the elements that compare
\* equal to it
insert_desc_before_equal(sorted, d) ==
    IF sorted = << >> THEN << d >>
    ELSE IF Head(sorted).confidence > d.confidence
         THEN << Head(sorted) >> \o insert_desc_before_equal(Tail(sorted), d)
         ELSE << d >> \o sorted

RECURSIVE insert_desc(_, _)
\* the stable insertion of d: after every element that does not compare
\* greater under |a, b| b.confidence.partial_cmp(&a.confidence)
insert_desc(sorted, d) ==
    IF sorted = << >> THEN << d >>
    ELSE IF Head(sorted).confidence >= d.confidence
         THEN << Head(sorted) >> \o insert_desc(Tail(sorted), d)
         ELSE << d >> \o sorted

RECURSIVE sort_by_confidence(_, _)
\* detections.sort_by(...): a stable sort, confidence descending
sort_by_confidence(done, rest) ==
    IF rest = << >> THEN done
    ELSE sort_by_confidence(insert_desc(done, Head(rest)), Tail(rest))

RECURSIVE nms_walk_at_threshold(_, _, _, _, _)
\* the walk with `iou >= iou_threshold`
nms_walk_at_threshold(detections, iou_threshold, i, suppressed, keep) ==
    IF i > Len(detections) THEN keep
    ELSE IF suppressed[i]
         THEN nms_walk_at_threshold(detections, iou_threshold, i + 1, suppressed, keep)
         ELSE nms_walk_at_threshold(detections, iou_threshold, i + 1,
                  [j \in 1..Len(detections) |->
                      \/ suppressed[j]
                      \/ /\ j > i
                         /\ detections[i].class_name = detections[j].class_name
                         /\ QGe(iou(detections[i].bbox, detections[j].bbox),
                                iou_threshold)],
                  Append(keep, detections[i]))

RECURSIVE nms_walk_any_class(_, _, _, _, _)
\* the walk without the comparison of the class names
nms_walk_any_class(detections, iou_threshold, i, suppressed, keep) ==
    IF i > Len(detections) THEN keep
    ELSE IF suppressed[i]
         THEN nms_walk_any_class(detections, iou_threshold, i + 1, suppressed, keep)
         ELSE nms_walk_any_class(detections, iou_threshold, i + 1,
                  [j \in 1..Len(detections) |->
                      \/ suppressed[j]
                      \/ /\ j > i
                         /\ QGt(iou(detections[i].bbox, detections[j].bbox),
                                iou_threshold)],
                  Append(keep, detections[i]))

RECURSIVE nms_walk(_, _, _, _, _)
nms_walk(detections, iou_threshold, i, suppressed, keep) ==
    IF i > Len(detections) THEN keep
    ELSE IF suppressed[i]
         THEN nms_walk(detections, iou_threshold, i + 1, suppressed, keep)
         ELSE nms_walk(detections, iou_threshold, i + 1,
                  [j \in 1..Len(detections) |->
                      \/ suppressed[j]
                      \/ /\ j > i
                         /\ detections[i].class_name = detections[j].class_name
                         /\ QGt(iou(detections[i].bbox, detections[j].bbox),
                                iou_threshold)],
                  Append(keep, detections[i]))

non_max_suppression(detections, iou_threshold) ==
    LET sorted == sort_by_confidence(<< >>, detections)
    IN  nms_walk(sorted, iou_threshold, 1, [j \in 1..Len(sorted) |-> FALSE], << >>)

\* postprocess_detections: the candidates (one per output column: the class of
\* highest score, its score and its box) at or above the confidence
\* threshold, then NMS
postprocess_detections(output, config) ==
    non_max_suppression(
        SelectSeq(output, LAMBDA d : d.confidence >= config.confidence_threshold),
        config.iou_threshold)

\* ------------------------------------------------------------------------
\* detector.rs: YoloDetector::audit_image, after the image is loaded and the
\* detections are known
\* ------------------------------------------------------------------------
match_threshold == << 3, 10 >>

RECURSIVE best_gt_last_tie(_, _, _, _)
\* the inner loop with `iou >= best_iou`
best_gt_last_tie(det, annotations, idx, best) ==
    IF idx > Len(annotations) THEN best
    ELSE LET v == iou(det.bbox, annotations[idx].bbox)
         IN  IF QGe(v, best[1])
             THEN best_gt_last_tie(det, annotations, idx + 1, << v, Some(idx) >>)
             ELSE best_gt_last_tie(det, annotations, idx + 1, best)

RECURSIVE best_gt(_, _, _, _)
\* the inner loop: << best_iou, best_gt_idx >> over annotations idx..
best_gt(det, annotations, idx, best) ==
    IF idx > Len(annotations) THEN best
    ELSE LET v == iou(det.bbox, annotations[idx].bbox)
         IN  IF QGt(v, best[1])
             THEN best_gt(det, annotations, idx + 1, << v, Some(idx) >>)
             ELSE best_gt(det, annotations, idx + 1, best)

\* the comparison written `>` in place of `>=`
is_matched_strict(best_iou) == QGt(best_iou, match_threshold)

is_matched(best_iou) == QGe(best_iou, match_threshold)

class_mismatch_issue(filename, det, gt, best_iou) ==
    Issue(filename, "High", "ClassMismatch", "model_detects_gt_says",
          Some(gt.class_name), Some(det.class_name), Some(det.confidence),
          Some(best_iou), None, Some(gt.line_num))

\* the missing label reported with the severity of a spurious one
missing_label_issue_low(filename, det) ==
    Issue(filename, "Low", "MissingLabel", "no_matching_gt",
          None, Some(det.class_name), Some(det.confidence), None, None, None)

missing_label_issue(filename, det) ==
    Issue(filename, "Medium", "MissingLabel", "no_matching_gt",
          None, Some(det.class_name), Some(det.confidence), None, None, None)

spurious_label_issue(filename, ann) ==
    Issue(filename, "Low", "SpuriousLabel", "model_detects_nothing_there",
          Some(ann.class_name), None, None, None, None, Some(ann.line_num))

\* the iteration with the class names compared as strings, not by the
\* equivalence heuristic
check_detection_exact_names(filename, det, annotations, st) ==
    LET best == best_gt(det, annotations, 1, << Zero, None >>)
        best_iou == best[1]
        best_gt_idx == best[2]
        result == st[1]
        matched_gt == st[2]
    IN  IF is_matched(best_iou)
        THEN IF best_gt_idx # None
             THEN LET gt_idx == best_gt_idx[1]
                      gt == annotations[gt_idx]
                  IN  << IF det.class_name # gt.class_name
                         THEN add_issue(result,
                                  class_mismatch_issue(filename, det, gt, best_iou))
                         ELSE result,
                         [matched_gt EXCEPT ![gt_idx] = TRUE] >>
             ELSE st
        ELSE << add_issue(result, missing_label_issue(filename, det)), matched_gt >>

\* one iteration of `for det in &detections`: << result, matched_gt >>
check_detection(filename, det, annotations, st) ==
    LET best == best_gt(det, annotations, 1, << Zero, None >>)
        best_iou == best[1]
        best_gt_idx == best[2]
        result == st[1]
        matched_gt == st[2]
    IN  IF is_matched(best_iou)
        THEN IF best_gt_idx # None
             THEN LET gt_idx == best_gt_idx[1]
                      gt == annotations[gt_idx]
                  IN  << IF ~classes_equivalent(det.class_name, gt.class_name)
                         THEN add_issue(result,
                                  class_mismatch_issue(filename, det, gt, best_iou))
                         ELSE result,
                         [matched_gt EXCEPT ![gt_idx] = TRUE] >>
             ELSE st
        ELSE << add_issue(result, missing_label_issue(filename, det)), matched_gt >>

RECURSIVE check_detections(_, _, _, _, _)
check_detections(filename, detections, annotations, k, st) ==
    IF k > Len(detections) THEN st
    ELSE check_detections(filename, detections, annotations, k + 1,
             check_detection(filename, detections[k], annotations, st))

RECURSIVE check_phantom_all(_, _, _, _, _)
\* the loop without the test of the matched flag
check_phantom_all(filename, annotations, matched_gt, idx, result) ==
    IF idx > Len(annotations) THEN result
    ELSE check_phantom_all(filename, annotations, matched_gt, idx + 1,
             add_issue(result, spurious_label_issue(filename, annotations[idx])))

RECURSIVE check_phantom(_, _, _, _, _)
\* the loop over the annotations whose matched flag is still false
check_phantom(filename, annotations, matched_gt, idx, result) ==
    IF idx > Len(annotations) THEN result
    ELSE check_phantom(filename, annotations, matched_gt, idx + 1,
             IF ~matched_gt[idx]
             THEN add_issue(result, spurious_label_issue(filename, annotations[idx]))
             ELSE result)

yolo_match(filename, annotations, detections) ==
    LET st == check_detections(filename, detections, annotations, 1,
                  << ImageResult_new(filename, Len(annotations), Len(detections)),
                     [idx \in 1..Len(annotations) |-> FALSE] >>)
    IN  check_phantom(filename, annotations, st[2], 1, st[1])

\* ------------------------------------------------------------------------
\* detector.rs: ZeroShotDetector::audit_image
\* ------------------------------------------------------------------------
load_failure_issue(filename) ==
    Issue(filename, "High", "ClassMismatch", "failed_to_load_image",
          None, None, None, None, None, None)

bbox_valid(b) ==
    /\ b.w > 0
    /\ b.h > 0
    /\ b.w <= Grid
    /\ b.h <= Grid
    /\ b.x >= 0
    /\ b.y >= 0
    /\ b.x <= Grid
    /\ b.y <= Grid
    /\ 100 * (2 * b.x - b.w) >= -(2 * Grid)
    /\ 100 * (2 * b.y - b.h) >= -(2 * Grid)

localization_issue(filename, ann) ==
    Issue(filename, "High", "Localization", "invalid_bbox",
          Some(ann.class_name), None, None, None,
          Some("out_of_valid_range"), Some(ann.line_num))

no_annotations_issue(filename) ==
    Issue(filename, "Low", "SpuriousLabel", "image_has_no_annotations",
          None, None, None, None, None, None)

RECURSIVE validate_annotations(_, _, _, _)
validate_annotations(filename, annotations, idx, result) ==
    IF idx > Len(annotations) THEN result
    ELSE validate_annotations(filename, annotations, idx + 1,
             IF ~bbox_valid(annotations[idx].bbox)
             THEN add_issue(result, localization_issue(filename, annotations[idx]))
             ELSE result)

\* opened: "failed", or the decoded image's size class ("large": width > 100
\* and height > 100; "small" otherwise)
zero_shot_audit(filename, annotations, opened) ==
    LET result == ImageResult_new(filename, Len(annotations), 0)
    IN  IF opened = "failed"
        THEN add_issue(result, load_failure_issue(filename))
        ELSE LET checked == validate_annotations(filename, annotations, 1, result)
             IN  IF annotations = << >> /\ opened = "large"
                 THEN add_issue(checked, no_annotations_issue(filename))
                 ELSE checked

\* ------------------------------------------------------------------------
\* models.rs: AuditResult
\* ------------------------------------------------------------------------
\* HashMap::new()
EmptyMap == [k \in {} |-> 0]

\* AuditResult::new (the configuration echo is left out)
AuditResult_new(total_images, images_audited) ==
    [total_images |-> total_images,
     images_audited |-> images_audited,
     image_results |-> << >>,
     summary |-> [total_images |-> total_images,
                  images_audited |-> images_audited,
                  images_with_issues |-> 0,
                  total_issues |-> 0,
                  by_severity |-> EmptyMap,
                  by_type |-> EmptyMap],
     flagged_images |-> << >>]

severity_key(sev) ==
    CASE sev = "High" -> "high"
      [] sev = "Medium" -> "medium"
      [] sev = "Low" -> "low"

\* impl Display for IssueType
issue_type_to_string(t) ==
    CASE t = "ClassMismatch" -> "class_mismatch"
      [] t = "MissingLabel" -> "missing_label"
      [] t = "SpuriousLabel" -> "spurious_label"
      [] t = "Localization" -> "localization"

\* the issues of the result added last only
all_issues_last_only(image_results) ==
    IF image_results = << >> THEN << >>
    ELSE image_results[Len(image_results)].issues

RECURSIVE all_issues(_)
\* the issues of all results, in the order the nested loops visit them
all_issues(image_results) ==
    IF image_results = << >> THEN << >>
    ELSE Head(image_results).issues \o all_issues(Tail(image_results))

\* a HashMap<String, usize> built with *entry(key).or_insert(0) += 1: a
\* function whose domain is the set of keys that occur
count_by_severity(issues) ==
    LET key(n) == severity_key(issues[n].severity)
    IN  [k \in { key(n) : n \in 1..Len(issues) } |->
            Cardinality({ n \in 1..Len(issues) : key(n) = k })]

count_by_type(issues) ==
    LET key(n) == issue_type_to_string(issues[n].issue_type)
    IN  [k \in { key(n) : n \in 1..Len(issues) } |->
            Cardinality({ n \in 1..Len(issues) : key(n) = k })]

RECURSIVE insert_by_issue_count_before_equal(_, _)
\* the insertion of an unstable sort: r goes before the results of equal
\* issue count
insert_by_issue_count_before_equal(sorted, r) ==
    IF sorted = << >> THEN << r >>
    ELSE IF Len(Head(sorted).issues) > Len(r.issues)
         THEN << Head(sorted) >> \o insert_by_issue_count_before_equal(Tail(sorted), r)
         ELSE << r >> \o sorted

RECURSIVE insert_by_issue_count(_, _)
insert_by_issue_count(sorted, r) ==
    IF sorted = << >> THEN << r >>
    ELSE IF Len(Head(sorted).issues) >= Len(r.issues)
         THEN << Head(sorted) >> \o insert_by_issue_count(Tail(sorted), r)
         ELSE << r >> \o sorted

RECURSIVE sort_by_issue_count(_, _)
\* flagged_images.sort_by(|a, b| b.issues.len().cmp(&a.issues.len())): stable
sort_by_issue_count(done, rest) ==
    IF rest = << >> THEN done
    ELSE sort_by_issue_count(insert_by_issue_count(done, Head(rest)), Tail(rest))

update_summary(ar) ==
    LET issues == all_issues(ar.image_results)
    IN  [ar EXCEPT
            !.summary.images_with_issues =
                Len(SelectSeq(ar.image_results, has_issues)),
            !.summary.total_issues =
                SumSeq([n \in 1..Len(ar.image_results) |-> Len(ar.image_results[n].issues)]),
            !.summary.by_severity = count_by_severity(issues),
            !.summary.by_type = count_by_type(issues),
            !.flagged_images = sort_by_issue_count(<< >>, ar.flagged_images)]

\* every result flagged, with or without issues
add_image_result_flag_all(ar, result) ==
    update_summary(
        [ar EXCEPT
            !.flagged_images = Append(@, result),
            !.image_results = Append(@, result)])

\* the result stored without the summary being recomputed
add_image_result_no_update(ar, result) ==
    [ar EXCEPT
        !.flagged_images = IF has_issues(result) THEN Append(@, result) ELSE @,
        !.image_results = Append(@, result)]

add_image_result(ar, result) ==
    update_summary(
        [ar EXCEPT
            !.flagged_images = IF has_issues(result) THEN Append(@, result) ELSE @,
            !.image_results = Append(@, result)])

\* the accessors
get_or_zero(map, key) == IF key \in DOMAIN map THEN map[key] ELSE 0

high_count(ar) == get_or_zero(ar.summary.by_severity, "high")

medium_count(ar) == get_or_zero(ar.summary.by_severity, "medium")

low_count(ar) == get_or_zero(ar.summary.by_severity, "low")

\* ------------------------------------------------------------------------
\* dataset.rs: the class table and the label files
\* ------------------------------------------------------------------------
S_Dress == << "D", "r", "e", "s", "s" >>
S_dog == << "d", "o", "g" >>

\* dataset.class_names of the audited dataset: class id k is class_names[k + 1]
class_names == << S_Dress, S_clothing, S_dog >>

Digits == << "0", "1", "2", "3", "4", "5", "6", "7", "8", "9" >>

\* .get(&class_id).cloned().unwrap_or_else(|| format!("class_{}", class_id))
get_class_name(class_id) ==
    IF class_id + 1 \in DOMAIN class_names
    THEN class_names[class_id + 1]
    ELSE << "c", "l", "a", "s", "s", "_", Digits[class_id + 1] >>

\* a line of a label file: one that parses to (class_id, x, y, w, h), or not
Line(class_id, bbox) == [parses |-> TRUE, class_id |-> class_id, bbox |-> bbox]

Malformed == [parses |-> FALSE, class_id |-> 0, bbox |-> BoundingBox(0, 0, 0, 0)]

RECURSIVE parse_lines(_, _)
parse_lines(content, line_num) ==
    IF line_num > Len(content) THEN << >>
    ELSE (IF content[line_num].parses
          THEN << Annotation(content[line_num].class_id,
                             get_class_name(content[line_num].class_id),
                             content[line_num].bbox, line_num) >>
          ELSE << >>) \o parse_lines(content, line_num + 1)

\* load_annotations: a missing or unreadable label file reads as an empty one
load_annotations(content) == parse_lines(content, 1)

\* ------------------------------------------------------------------------
\* The inputs of a run: the dataset on disk and what the model outputs
\* ------------------------------------------------------------------------
BoxA == BoundingBox(4, 4, 5, 2)
BoxB == BoundingBox(4, 4, 3, 1)
BoxC == BoundingBox(-1, 4, 2, 2)
BoxD == BoundingBox(7, 4, 4, 2)

LinePool ==
    { Malformed, Line(2, BoxA), Line(1, BoxB), Line(2, BoxC), Line(1, BoxD) }

\* the candidates of the model's output tensor for an image
OutputPool ==
    { Detection(S_Dress, 90, BoxA), Detection(S_dog, 90, BoxB),
      Detection(S_dog, 50, BoxA), Detection(S_clothing, 50, BoxD),
      Detection(S_dog, 20, BoxA) }

\* The content of an image is drawn when it is read.  A dataset of one image
\* has any label file of at most MaxLines lines and any output of at most
\* MaxDets candidates; the images of a larger dataset have one of a few label
\* files and outputs (zero to three issues under the model-based detector).
SampleLabels ==
    { << >>, << Line(2, BoxA) >>, << Line(2, BoxC), Line(1, BoxB) >> }

SampleOutputs ==
    { << >>, << Detection(S_Dress, 90, BoxA) >>, << Detection(S_clothing, 50, BoxD) >> }

LabelFiles(n) == IF n = 1 THEN SeqsUpTo(LinePool, MaxLines) ELSE SampleLabels

Outputs(n) == IF n = 1 THEN SeqsUpTo(OutputPool, MaxDets) ELSE SampleOutputs

\* the --method values and the --model argument: none, a loadable ONNX file,
\* or a file the runtime cannot load
Methods == { "zero-shot", "yolo", "byom", "vlm", "clip" }

ModelPaths == { "none", "model.onnx", "broken.onnx" }

default_confidence == 25

default_iou == << 1, 2 >>

\* ------------------------------------------------------------------------
\* State
\* ------------------------------------------------------------------------
VARIABLES
    images,         \* the selected image paths, in dataset order
    phase,          \* run_validate: "start", "auditing", "aggregating", "done", "failed"
    detector,       \* "none", "yolo" (YoloDetector) or "zero-shot" (ZeroShotDetector)
    config,         \* DetectorConfig
    pc,             \* per image, the place of the closure that audits it
    opened,         \* per image, the outcome of image::open
    annotations,    \* per image, the closure's annotations (while it runs)
    detections,     \* per image, audit_image's detections (while it runs)
    results,        \* per image, the Result<ImageResult> of the closure
    session,        \* the holder of the Mutex<Session> (an image), or 0
    audit_result,   \* the AuditResult, once built
    next_result,    \* the position of the aggregation loop
    call,           \* a call of one function on its own: its name and arguments
    ret             \* the value that call returned, once it has

vars == << images, phase, detector, config, pc, opened, annotations, detections,
           results, session, audit_result, next_result, call, ret >>

N == Len(images)

Pending == [tag |-> "Pending", ok |-> None, err |-> ""]

NoCall == [fn |-> "none", args |-> << >>]

Ok(r) == [tag |-> "Ok", ok |-> Some(r), err |-> ""]

Err(e) == [tag |-> "Err", ok |-> None, err |-> e]

Init ==
    /\ images \in { [i \in 1..n |-> i] : n \in 0..MaxImages }
    /\ phase = "start"
    /\ detector = "none"
    /\ config = [confidence_threshold |-> default_confidence,
                 iou_threshold |-> default_iou, model_path |-> "none"]
    /\ pc = [i \in 1..Len(images) |-> "queued"]
    /\ opened = [i \in 1..Len(images) |-> "no"]
    /\ annotations = [i \in 1..Len(images) |-> << >>]
    /\ detections = [i \in 1..Len(images) |-> << >>]
    /\ results = [i \in 1..Len(images) |-> Pending]
    /\ session = 0
    /\ audit_result = None
    /\ next_result = 0
    /\ call = NoCall
    /\ ret = None

\* ------------------------------------------------------------------------
\* run_validate: the detector
\* ------------------------------------------------------------------------
effective_method(method, model_path) ==
    IF model_path # "none" THEN "yolo" ELSE method

\* the detector built without the check of config.model_path
build_detector_unchecked(method, model_path) ==
    LET m == effective_method(method, model_path)
    IN  CASE m \in { "yolo", "byom" } ->
                IF model_path = "broken.onnx" THEN "error" ELSE "yolo"
          [] m = "zero-shot" -> "zero-shot"
          [] OTHER -> "error"

\* the detector built for a method, or "error" (anyhow::bail!, or a `?` on
\* YoloDetector::new)
build_detector(method, model_path) ==
    LET m == effective_method(method, model_path)
    IN  CASE m \in { "yolo", "byom" } ->
                IF model_path = "none" THEN "error"
                ELSE IF model_path = "broken.onnx" THEN "error"
                ELSE "yolo"
          [] m = "zero-shot" -> "zero-shot"
          [] OTHER -> "error"

InitDetector ==
    /\ phase = "start"
    /\ \E method \in Methods, model_path \in ModelPaths :
        /\ config' = [config EXCEPT !.model_path = model_path]
        /\ IF build_detector(method, model_path) = "error"
           THEN /\ phase' = "failed"
                /\ detector' = detector
           ELSE /\ phase' = "auditing"
                /\ detector' = build_detector(method, model_path)
    /\ UNCHANGED << call, ret, images, pc, opened, annotations, detections, results,
                    session, audit_result, next_result >>

\* ------------------------------------------------------------------------
\* The parallel map: one closure call per image.  A closure that has
\* returned holds nothing but its result.
\* ------------------------------------------------------------------------
\* image::open fails, or gives an image that is "large" (width > 100 and
\* height > 100) or "small"; YoloDetector reads the size and ignores it
ZeroShotOpenOutcomes == { "failed", "small", "large" }

YoloOpenOutcomes == { "failed", "ok" }

\* load_annotations, then ZeroShotDetector::audit_image, whole: it shares
\* nothing with other calls
ZeroShotAudit(i) ==
    /\ phase = "auditing"
    /\ detector = "zero-shot"
    /\ pc[i] = "queued"
    /\ \E content \in LabelFiles(N), o \in ZeroShotOpenOutcomes :
        /\ annotations' = [annotations EXCEPT ![i] = load_annotations(content)]
        /\ opened' = [opened EXCEPT ![i] = o]
        /\ results' = [results EXCEPT
               ![i] = Ok(zero_shot_audit(i, load_annotations(content), o))]
    /\ pc' = [pc EXCEPT ![i] = "audited"]
    /\ UNCHANGED << call, ret, images, phase, detector, config, detections, session,
                    audit_result, next_result >>

\* load_annotations, then YoloDetector::audit_image up to the call of detect:
\* image::open(...).context("Failed to load image")?
YoloOpen(i) ==
    /\ phase = "auditing"
    /\ detector = "yolo"
    /\ pc[i] = "queued"
    /\ \E content \in LabelFiles(N), o \in YoloOpenOutcomes :
        /\ opened' = [opened EXCEPT ![i] = o]
        /\ IF o = "failed"
           THEN /\ annotations' = annotations
                /\ results' = [results EXCEPT ![i] = Err("Failed to load image")]
                /\ pc' = [pc EXCEPT ![i] = "done"]
           ELSE /\ annotations' = [annotations EXCEPT ![i] = load_annotations(content)]
                /\ results' = results
                /\ pc' = [pc EXCEPT ![i] = "loaded"]
    /\ UNCHANGED << call, ret, images, phase, detector, config, detections, session,
                    audit_result, next_result >>

\* the session taken without waiting for it to be free
YoloLock_unguarded(i) ==
    /\ phase = "auditing"
    /\ pc[i] = "loaded"
    /\ session' = i
    /\ pc' = [pc EXCEPT ![i] = "locked"]
    /\ UNCHANGED << call, ret, images, phase, detector, config, opened, annotations,
                    detections, results, audit_result, next_result >>

\* detect: self.session.lock()
YoloLock(i) ==
    /\ phase = "auditing"
    /\ pc[i] = "loaded"
    /\ session = 0
    /\ session' = i
    /\ pc' = [pc EXCEPT ![i] = "locked"]
    /\ UNCHANGED << call, ret, images, phase, detector, config, opened, annotations,
                    detections, results, audit_result, next_result >>

\* detect: session.run(...)?, the postprocessing, and the guard's drop
YoloInfer(i) ==
    /\ phase = "auditing"
    /\ pc[i] = "locked"
    /\ session = i
    /\ session' = 0
    /\ \/ \E output \in Outputs(N) :
            /\ detections' = [detections EXCEPT
                   ![i] = postprocess_detections(output, config)]
            /\ UNCHANGED << annotations, results >>
            /\ pc' = [pc EXCEPT ![i] = "detected"]
       \/ /\ UNCHANGED detections
          /\ annotations' = [annotations EXCEPT ![i] = << >>]
          /\ results' = [results EXCEPT ![i] = Err("inference failed")]
          /\ pc' = [pc EXCEPT ![i] = "done"]
    /\ UNCHANGED << call, ret, images, phase, detector, config, opened, audit_result,
                    next_result >>

\* YoloDetector::audit_image from ImageResult::new to Ok(result)
YoloMatch(i) ==
    /\ phase = "auditing"
    /\ pc[i] = "detected"
    /\ results' = [results EXCEPT
           ![i] = Ok(yolo_match(i, annotations[i], detections[i]))]
    /\ pc' = [pc EXCEPT ![i] = "audited"]
    /\ UNCHANGED << call, ret, images, phase, detector, config, opened, annotations,
                    detections, session, audit_result, next_result >>

\* the closure returns the result of audit_image (pb.inc(1); result)
Yield(i) ==
    /\ phase = "auditing"
    /\ pc[i] = "audited"
    /\ annotations' = [annotations EXCEPT ![i] = << >>]
    /\ detections' = [detections EXCEPT ![i] = << >>]
    /\ pc' = [pc EXCEPT ![i] = "done"]
    /\ UNCHANGED << call, ret, images, phase, detector, config, opened, results, session,
                    audit_result, next_result >>

\* ------------------------------------------------------------------------
\* run_validate: the aggregation
\* ------------------------------------------------------------------------
\* .collect() has returned: AuditResult::new(.., dataset.image_count(),
\* images.len()), for a run without --sample (every image is selected)
Collect ==
    /\ phase = "auditing"
    /\ \A i \in 1..N : pc[i] = "done"
    /\ phase' = "aggregating"
    /\ audit_result' = Some(AuditResult_new(N, N))
    /\ next_result' = 1
    /\ UNCHANGED << call, ret, images, detector, config, pc, opened, annotations,
                    detections, results, session >>

\* the results added from the last image to the first
Aggregate_reversed ==
    /\ phase = "aggregating"
    /\ next_result <= N
    /\ audit_result' =
           IF results[N + 1 - next_result].tag = "Ok"
           THEN Some(add_image_result(audit_result[1], results[N + 1 - next_result].ok[1]))
           ELSE audit_result
    /\ next_result' = next_result + 1
    /\ UNCHANGED << call, ret, images, phase, detector, config, pc, opened, annotations,
                    detections, results, session >>

\* one step of `for result in results.into_iter().flatten()`: an Err is
\* passed over, an Ok is added
Aggregate ==
    /\ phase = "aggregating"
    /\ next_result <= N
    /\ audit_result' =
           IF results[next_result].tag = "Ok"
           THEN Some(add_image_result(audit_result[1], results[next_result].ok[1]))
           ELSE audit_result
    /\ next_result' = next_result + 1
    /\ UNCHANGED << call, ret, images, phase, detector, config, pc, opened, annotations,
                    detections, results, session >>

\* the loop is over: the summary is printed and the report written
Finish ==
    /\ phase = "aggregating"
    /\ next_result > N
    /\ phase' = "done"
    /\ UNCHANGED << call, ret, images, detector, config, pc, opened, annotations,
                    detections, results, session, audit_result, next_result >>

Next ==
    \/ InitDetector
    \/ \E i \in 1..N : ZeroShotAudit(i)
    \/ \E i \in 1..N : YoloOpen(i)
    \/ \E i \in 1..N : YoloLock(i)
    \/ \E i \in 1..N : YoloInfer(i)
    \/ \E i \in 1..N : YoloMatch(i)
    \/ \E i \in 1..N : Yield(i)
    \/ Collect
    \/ Aggregate
    \/ Finish

Spec == Init /\ [][Next]_vars

\* ------------------------------------------------------------------------
\* Properties
\* ------------------------------------------------------------------------
IssuesOfType(issues, t) == SelectSeq(issues, LAMBDA x : x.issue_type = t)

\* audit_image has returned Ok for image i, and its closure has not yet
\* returned
Audited(i) == pc[i] = "audited"

ResultOf(i) == results[i].ok[1]

\* the aggregated results of image i, once the run has finished
AggregatedFor(i) ==
    SelectSeq(audit_result[1].image_results, LAMBDA r : r.filename = i)

FlaggedFor(i) ==
    SelectSeq(audit_result[1].flagged_images, LAMBDA r : r.filename = i)

\* the geometric validity rule as the specification words it: w <= 0,
\* h <= 0, w > 1, h > 1, or a corner outside [-0.01, 1]
CornerInRange(c) == 100 * c >= -(2 * Grid) /\ c <= 2 * Grid

StatedInvalid(b) ==
    \/ b.w <= 0
    \/ b.h <= 0
    \/ b.w > Grid
    \/ b.h > Grid
    \/ \E k \in 1..4 : ~CornerInRange(to_xyxy(b)[k])

\* the annotation a detection is matched to: the first of maximal IoU, when
\* that IoU is at least 3/10; 0 when there is none
AtLeastThreeTenths(q) == 10 * q[1] >= 3 * q[2]

MatchOf(det, anns) ==
    LET best(j) ==
            /\ AtLeastThreeTenths(iou(det.bbox, anns[j].bbox))
            /\ \A k \in 1..Len(anns) :
                   /\ QGe(iou(det.bbox, anns[j].bbox), iou(det.bbox, anns[k].bbox))
                   /\ k < j => QGt(iou(det.bbox, anns[j].bbox), iou(det.bbox, anns[k].bbox))
    IN  IF \E j \in 1..Len(anns) : best(j)
        THEN CHOOSE j \in 1..Len(anns) : best(j)
        ELSE 0

\* C1: under either detector, once the run has finished every image that
\* could not be loaded is among flagged_images with at least one issue.
C1_UnreadableImagesFlagged ==
    phase = "done" =>
        \A i \in 1..N :
            opened[i] = "failed" =>
                /\ FlaggedFor(i) # << >>
                /\ \A k \in 1..Len(FlaggedFor(i)) : FlaggedFor(i)[k].issues # << >>

\* C2: once the batch has finished, every selected image has contributed
\* exactly one ImageResult, so their number equals images_audited.
C2_OneResultPerImage ==
    phase = "done" =>
        /\ Len(audit_result[1].image_results) = audit_result[1].images_audited
        /\ \A i \in 1..N : Len(AggregatedFor(i)) = 1

\* C3: an inference failure on one image leaves the other images' results
\* aggregated unchanged, and the failing image is recorded with an issue.
C3_InferenceFailureRecorded ==
    phase = "done" =>
        \A i \in 1..N :
            /\ results[i].tag = "Ok" => AggregatedFor(i) = << ResultOf(i) >>
            /\ results[i].err = "inference failed" =>
                   /\ Len(AggregatedFor(i)) = 1
                   /\ AggregatedFor(i)[1].issues # << >>

\* C4: audited with a model, every geometrically invalid ground-truth box
\* yields a Localization issue of severity High and is matched by no
\* detection.
C4_InvalidBoxesExcluded ==
    \A i \in 1..N :
        (detector = "yolo" /\ Audited(i)) =>
            \A a \in 1..Len(annotations[i]) :
                StatedInvalid(annotations[i][a].bbox) =>
                    /\ \E k \in 1..Len(ResultOf(i).issues) :
                           /\ ResultOf(i).issues[k].issue_type = "Localization"
                           /\ ResultOf(i).issues[k].severity = "High"
                           /\ ResultOf(i).issues[k].line_num = Some(annotations[i][a].line_num)
                    /\ \A d \in 1..Len(detections[i]) :
                           MatchOf(detections[i][d], annotations[i]) # a

\* C5: the validity check flags a box (one Localization issue, High, with
\* the annotation's line_num) exactly when w <= 0, h <= 0, w > 1, h > 1 or
\* a corner lies outside [-0.01, 1].
C5_ValidityRule ==
    \A i \in 1..N :
        (detector = "zero-shot" /\ Audited(i) /\ opened[i] # "failed") =>
            \A a \in 1..Len(annotations[i]) :
                LET flags == SelectSeq(ResultOf(i).issues,
                                 LAMBDA x : /\ x.issue_type = "Localization"
                                            /\ x.severity = "High"
                                            /\ x.line_num = Some(annotations[i][a].line_num))
                IN  IF StatedInvalid(annotations[i][a].bbox)
                    THEN Len(flags) = 1
                    ELSE Len(flags) = 0

\* C6: a ground-truth annotation is claimed by at most one detection, so
\* at most one ClassMismatch issue is emitted per annotation.
C6_OneMismatchPerAnnotation ==
    \A i \in 1..N :
        (detector = "yolo" /\ Audited(i)) =>
            \A a \in 1..Len(annotations[i]) :
                Len(SelectSeq(ResultOf(i).issues,
                        LAMBDA x : /\ x.issue_type = "ClassMismatch"
                                   /\ x.line_num = Some(annotations[i][a].line_num))) <= 1

\* the detections with no annotation at IoU >= 3/10, in detection order
Unmatched(i) ==
    SelectSeq(detections[i], LAMBDA d : MatchOf(d, annotations[i]) = 0)

Mismatched(i) ==
    SelectSeq(detections[i],
        LAMBDA d : /\ MatchOf(d, annotations[i]) # 0
                   /\ ~classes_equivalent(d.class_name,
                           annotations[i][MatchOf(d, annotations[i])].class_name))

\* C8: a matched detection emits a ClassMismatch of severity High exactly
\* when its class and its annotation's are not equivalent, carrying
\* gt_class, detected_class, the confidence, the best IoU and the
\* annotation's line_num; an equivalent pair emits nothing.
C8_ClassMismatch ==
    \A i \in 1..N :
        (detector = "yolo" /\ Audited(i)) =>
            LET mm == IssuesOfType(ResultOf(i).issues, "ClassMismatch")
            IN  /\ Len(mm) = Len(Mismatched(i))
                /\ \A k \in 1..Len(mm) :
                       LET d == Mismatched(i)[k]
                           gt == annotations[i][MatchOf(d, annotations[i])]
                       IN  /\ mm[k].severity = "High"
                           /\ mm[k].gt_class = Some(gt.class_name)
                           /\ mm[k].detected_class = Some(d.class_name)
                           /\ mm[k].confidence = Some(d.confidence)
                           /\ mm[k].iou = Some(iou(d.bbox, gt.bbox))
                           /\ mm[k].line_num = Some(gt.line_num)

\* an image with one detection matched to an annotation of another but
\* equivalent class name, emitting nothing, and one detection matched to an
\* annotation of a class that is not equivalent, emitting the ClassMismatch
C8_Witness ==
    \E i \in 1..N :
        /\ detector = "yolo"
        /\ Audited(i)
        /\ Len(IssuesOfType(ResultOf(i).issues, "ClassMismatch")) = 1
        /\ Len(Mismatched(i)) = 1
        /\ \E d \in 1..Len(detections[i]) :
               LET m == MatchOf(detections[i][d], annotations[i])
               IN  /\ m # 0
                   /\ detections[i][d].class_name # annotations[i][m].class_name
                   /\ classes_equivalent(detections[i][d].class_name,
                                         annotations[i][m].class_name)

\* the annotations no detection is matched to, in annotation order
Undetected(i) ==
    SelectSeq(annotations[i],
        LAMBDA a : \A d \in 1..Len(detections[i]) :
                       \/ MatchOf(detections[i][d], annotations[i]) = 0
                       \/ annotations[i][MatchOf(detections[i][d], annotations[i])] # a)

\* C9: after all detections are processed, an annotation yields exactly one
\* SpuriousLabel (severity Low, with its line_num) exactly when no detection
\* had it as its best match at IoU >= 0.3.
C9_SpuriousLabel ==
    \A i \in 1..N :
        (detector = "yolo" /\ Audited(i)) =>
            LET sp == IssuesOfType(ResultOf(i).issues, "SpuriousLabel")
            IN  /\ Len(sp) = Len(Undetected(i))
                /\ \A k \in 1..Len(sp) :
                       /\ sp[k].severity = "Low"
                       /\ sp[k].line_num = Some(Undetected(i)[k].line_num)
                       /\ sp[k].gt_class = Some(Undetected(i)[k].class_name)

\* an image with two annotations, one matched by a detection and one not
C9_Witness ==
    \E i \in 1..N :
        /\ detector = "yolo"
        /\ Audited(i)
        /\ Len(annotations[i]) = 2
        /\ Len(Undetected(i)) = 1
        /\ Len(IssuesOfType(ResultOf(i).issues, "SpuriousLabel")) = 1

SeverityOf(t) ==
    CASE t = "ClassMismatch" -> "High"
      [] t = "Localization"  -> "High"
      [] t = "MissingLabel"  -> "Medium"
      [] t = "SpuriousLabel" -> "Low"
      [] OTHER               -> "none"

\* C11: in every issue of every ImageResult produced by either detector the
\* severity is the one of its issue type: ClassMismatch and Localization are
\* High, MissingLabel is Medium, SpuriousLabel is Low.
C11_SeverityByType ==
    \A i \in 1..N :
        results[i].tag = "Ok" =>
            \A k \in 1..Len(ResultOf(i).issues) :
                ResultOf(i).issues[k].severity =
                    SeverityOf(ResultOf(i).issues[k].issue_type)

\* one image whose result holds a ClassMismatch, a MissingLabel and a
\* SpuriousLabel issue
C11_Witness ==
    \E i \in 1..N :
        /\ detector = "yolo"
        /\ results[i].tag = "Ok"
        /\ \A t \in { "ClassMismatch", "MissingLabel", "SpuriousLabel" } :
               IssuesOfType(ResultOf(i).issues, t) # << >>

\* an image of the zero-shot detector with a Localization issue
C11_WitnessLocalization ==
    \E i \in 1..N :
        /\ detector = "zero-shot"
        /\ results[i].tag = "Ok"
        /\ IssuesOfType(ResultOf(i).issues, "Localization") # << >>

\* ------------------------------------------------------------------------
\* A function called on its own, as the unit tests of detector.rs do: no run
\* of run_validate is in progress, `call` holds the arguments and `ret` the
\* value returned.
\* ------------------------------------------------------------------------
NoRun ==
    /\ images = << >>
    /\ phase = "start"
    /\ detector = "none"
    /\ config = [confidence_threshold |-> default_confidence,
                 iou_threshold |-> default_iou, model_path |-> "none"]
    /\ pc = << >>
    /\ opened = << >>
    /\ annotations = << >>
    /\ detections = << >>
    /\ results = << >>
    /\ session = 0
    /\ audit_result = None
    /\ next_result = 0

run_vars == << images, phase, detector, config, pc, opened, annotations,
               detections, results, session, audit_result, next_result >>

\* bounds of the boxes given to iou: centres 0..MaxCentre, sides -1..MaxSide
\* (in units of 1/Grid)
MaxCentre == 2

MaxSide == 2

\* the boxes, degenerate ones (a side zero or negative) included
Boxes ==
    { BoundingBox(x, y, w, h) :
        x \in 0..MaxCentre, y \in 0..MaxCentre, w \in -1..MaxSide, h \in -1..MaxSide }

InitIou ==
    /\ NoRun
    /\ call \in { [fn |-> "iou", args |-> << a, b >>] : a \in Boxes, b \in Boxes }
    /\ ret = None

\* a.iou(&b)
CallIou ==
    /\ call.fn = "iou"
    /\ ret = None
    /\ ret' = Some(iou(call.args[1], call.args[2]))
    /\ UNCHANGED << call, run_vars >>

NextIou == CallIou

IouSpec == InitIou /\ [][NextIou]_vars

\* ------------------------------------------------------------------------
\* Properties of iou
\* ------------------------------------------------------------------------
IouReturned == call.fn = "iou" /\ ret # None

ValidBox(b) == b.w > 0 /\ b.h > 0

One == << 1, 1 >>

\* C12: for all valid boxes a and b (w > 0, h > 0), iou(a, b) = iou(b, a) and
\* 0 <= iou(a, b) <= 1.
C12_IouSymmetricBounded ==
    IouReturned =>
        LET a == call.args[1]
            b == call.args[2]
        IN  (ValidBox(a) /\ ValidBox(b)) =>
                /\ ret[1] = iou(b, a)
                /\ QGe(ret[1], Zero)
                /\ QGe(One, ret[1])

\* two different valid boxes that overlap in part: an IoU strictly between 0
\* and 1
C12_Witness ==
    /\ IouReturned
    /\ ValidBox(call.args[1])
    /\ ValidBox(call.args[2])
    /\ call.args[1] # call.args[2]
    /\ QGt(ret[1], Zero)
    /\ QGt(One, ret[1])

\* the rectangles of a and b share no area
Disjoint(a, b) ==
    LET A == to_xyxy(a)
        B == to_xyxy(b)
    IN  \/ A[3] <= B[1]
        \/ B[3] <= A[1]
        \/ A[4] <= B[2]
        \/ B[4] <= A[2]

Area(b) == (2 * b.w) * (2 * b.h)

\* the area shared by a and b, zero when they share none
Overlap(a, b) ==
    LET A == to_xyxy(a)
        B == to_xyxy(b)
        w == Min(A[3], B[3]) - Max(A[1], B[1])
        h == Min(A[4], B[4]) - Max(A[2], B[2])
    IN  IF w > 0 /\ h > 0 THEN w * h ELSE 0

C13_WitnessDisjoint ==
    /\ IouReturned
    /\ ValidBox(call.args[1])
    /\ ValidBox(call.args[2])
    /\ Disjoint(call.args[1], call.args[2])
    /\ ret[1] = Zero

\* two boxes of no area
C13_WitnessNoUnion ==
    /\ IouReturned
    /\ Area(call.args[1]) + Area(call.args[2]) <= 0
    /\ ret[1] = Zero

\* ------------------------------------------------------------------------
\* non_max_suppression called on its own
\* ------------------------------------------------------------------------
\* the longest list of detections given to non_max_suppression
MaxNmsLen == 3

\* detections of two classes: equal and different confidences, the same box
\* under both classes, and boxes at IoU 1, 3/10, 1/5 and 1/21
NmsPool ==
    { Detection(S_Dress, 90, BoxA), Detection(S_dog, 90, BoxA),
      Detection(S_dog, 90, BoxB), Detection(S_dog, 50, BoxD),
      Detection(S_Dress, 50, BoxA), Detection(S_dog, 20, BoxB) }

\* values of config.iou_threshold, the default among them
Thresholds == { Zero, << 1, 5 >>, << 3, 10 >>, default_iou, << 1, 1 >> }

InitNms ==
    /\ NoRun
    /\ call \in { [fn |-> "non_max_suppression", args |-> << ds, t >>] :
                    ds \in SeqsUpTo(NmsPool, MaxNmsLen), t \in Thresholds }
    /\ ret = None

\* self.non_max_suppression(detections)
CallNms ==
    /\ call.fn = "non_max_suppression"
    /\ ret = None
    /\ ret' = Some(non_max_suppression(call.args[1], call.args[2]))
    /\ UNCHANGED << call, run_vars >>

NextNms == CallNms

NmsSpec == InitNms /\ [][NextNms]_vars

\* ------------------------------------------------------------------------
\* Properties of non_max_suppression
\* ------------------------------------------------------------------------
NmsReturned == call.fn = "non_max_suppression" /\ ret # None

\* C14: non_max_suppression applied to its own output, with the same
\* threshold, returns the same detections in the same order.
C14_NmsIdempotent ==
    NmsReturned => non_max_suppression(ret[1], call.args[2]) = ret[1]

\* a call that suppressed a detection and kept two of equal confidence
C14_Witness ==
    /\ NmsReturned
    /\ Len(ret[1]) < Len(call.args[1])
    /\ \E k \in 1..(Len(ret[1]) - 1) : ret[1][k].confidence = ret[1][k + 1].confidence

\* the number of occurrences of d in the list s
Count(s, d) == Cardinality({ k \in 1..Len(s) : s[k] = d })

OfClass(s, c) == SelectSeq(s, LAMBDA d : d.class_name = c)

\* C15: a detection that NMS drops overlaps a kept detection of the same
\* class-name string above the threshold; and detections of different class
\* names do not affect each other: the kept detections of a class are those
\* NMS keeps from the detections of that class alone, whatever the IoU with
\* detections of other classes and whatever the threshold.
C15_NmsClassIsolation ==
    NmsReturned =>
        LET in == call.args[1]
            out == ret[1]
        IN  /\ \A i \in 1..Len(in) :
                   Count(out, in[i]) < Count(in, in[i]) =>
                       \E k \in 1..Len(out) :
                           /\ out[k].class_name = in[i].class_name
                           /\ QGt(iou(out[k].bbox, in[i].bbox), call.args[2])
            /\ \A i \in 1..Len(in) :
                   OfClass(out, in[i].class_name) =
                       non_max_suppression(OfClass(in, in[i].class_name), call.args[2])
            /\ \A i, j \in 1..Len(in) :
                   (Len(in) = 2 /\ in[i].class_name # in[j].class_name) =>
                       Len(out) = 2

\* two detections of different classes on the same box (IoU 1), both kept at
\* threshold 0
C15_Witness ==
    /\ NmsReturned
    /\ call.args[2] = Zero
    /\ Len(call.args[1]) = 2
    /\ call.args[1][1].class_name # call.args[1][2].class_name
    /\ call.args[1][1].bbox = call.args[1][2].bbox
    /\ Len(ret[1]) = 2

\* ------------------------------------------------------------------------
\* An AuditResult on its own: add_image_result called with one ImageResult
\* after another, and the summary recomputed once more.  `call.args` holds
\* the results added so far, `ret` the AuditResult.
\* ------------------------------------------------------------------------
\* the largest number of results added to one AuditResult
MaxResults == 3

PoolDet == Detection(S_dog, 90, BoxB)

PoolGt == Annotation(0, S_Dress, BoxA, 1)

PoolGt2 == Annotation(2, S_dog, BoxC, 2)

\* results of six images: no issue, one issue (three of them), two issues
\* (two of them), of every type and severity
ResultPool ==
    { ImageResult_new(1, 0, 0),
      add_issue(ImageResult_new(2, 1, 1),
                class_mismatch_issue(2, PoolDet, PoolGt, match_threshold)),
      add_issue(ImageResult_new(3, 1, 0), spurious_label_issue(3, PoolGt)),
      add_issue(add_issue(ImageResult_new(4, 1, 1), missing_label_issue(4, PoolDet)),
                spurious_label_issue(4, PoolGt)),
      add_issue(add_issue(ImageResult_new(5, 2, 0), localization_issue(5, PoolGt)),
                localization_issue(5, PoolGt2)),
      add_issue(ImageResult_new(6, 0, 1), missing_label_issue(6, PoolDet)) }

InitAgg ==
    /\ NoRun
    /\ call = [fn |-> "add_image_result", args |-> << >>, recomputed |-> FALSE]
    /\ ret = Some(AuditResult_new(MaxResults, MaxResults))

\* audit_result.add_image_result(result), each image's result at most once
CallAddImageResult ==
    /\ call.fn = "add_image_result"
    /\ Len(call.args) < MaxResults
    /\ \E r \in ResultPool :
        /\ \A n \in 1..Len(call.args) : call.args[n].filename # r.filename
        /\ call' = [call EXCEPT !.args = Append(@, r), !.recomputed = FALSE]
        /\ ret' = Some(add_image_result(ret[1], r))
    /\ UNCHANGED run_vars

\* self.update_summary() once more, nothing having been added since
CallUpdateSummary ==
    /\ call.fn = "add_image_result"
    /\ ~call.recomputed
    /\ call' = [call EXCEPT !.recomputed = TRUE]
    /\ ret' = Some(update_summary(ret[1]))
    /\ UNCHANGED run_vars

NextAgg ==
    \/ CallAddImageResult
    \/ CallUpdateSummary

AggSpec == InitAgg /\ [][NextAgg]_vars

\* ------------------------------------------------------------------------
\* Properties of the aggregation
\* ------------------------------------------------------------------------
Aggregating == call.fn = "add_image_result"

\* the positions (result, issue) of the issues of the results rs
IssuePositions(rs) ==
    UNION { { << n, k >> : k \in 1..Len(rs[n].issues) } : n \in 1..Len(rs) }

NumWithSeverity(rs, sev) ==
    Cardinality({ p \in IssuePositions(rs) : rs[p[1]].issues[p[2]].severity = sev })

NumOfType(rs, t) ==
    Cardinality({ p \in IssuePositions(rs) : rs[p[1]].issues[p[2]].issue_type = t })

\* C16: after any sequence of add_image_result calls the summary is what a
\* recomputation from image_results gives: total_issues the number of issues,
\* images_with_issues the number of results with an issue, by_severity and
\* by_type the counts per severity and per type, so that high + medium + low
\* and the by_type counts both add up to total_issues.
C16_SummaryIsRecomputation ==
    Aggregating =>
        LET ar == ret[1]
            rs == ar.image_results
            s == ar.summary
        IN  /\ rs = call.args
            /\ s.total_issues = Cardinality(IssuePositions(rs))
            /\ s.images_with_issues =
                   Cardinality({ n \in 1..Len(rs) : rs[n].issues # << >> })
            /\ DOMAIN s.by_severity \subseteq { "high", "medium", "low" }
            /\ high_count(ar) = NumWithSeverity(rs, "High")
            /\ medium_count(ar) = NumWithSeverity(rs, "Medium")
            /\ low_count(ar) = NumWithSeverity(rs, "Low")
            /\ high_count(ar) + medium_count(ar) + low_count(ar) = s.total_issues
            /\ DOMAIN s.by_type \subseteq
                   { "class_mismatch", "missing_label", "spurious_label", "localization" }
            /\ get_or_zero(s.by_type, "class_mismatch") = NumOfType(rs, "ClassMismatch")
            /\ get_or_zero(s.by_type, "missing_label") = NumOfType(rs, "MissingLabel")
            /\ get_or_zero(s.by_type, "spurious_label") = NumOfType(rs, "SpuriousLabel")
            /\ get_or_zero(s.by_type, "localization") = NumOfType(rs, "Localization")
            /\ get_or_zero(s.by_type, "class_mismatch")
                 + get_or_zero(s.by_type, "missing_label")
                 + get_or_zero(s.by_type, "spurious_label")
                 + get_or_zero(s.by_type, "localization") = s.total_issues

\* three results added, one without issues, issues of all three severities
C16_Witness ==
    /\ Aggregating
    /\ Len(ret[1].image_results) = 3
    /\ ret[1].summary.images_with_issues = 2
    /\ high_count(ret[1]) > 0
    /\ medium_count(ret[1]) > 0
    /\ low_count(ret[1]) > 0

\* C17: update_summary run a second time on an unchanged AuditResult leaves
\* total_issues, images_with_issues, by_severity, by_type and the order of
\* flagged_images as they were.
C17_UpdateSummaryIdempotent ==
    [][(Aggregating /\ ~call.recomputed /\ call'.recomputed) =>
           /\ ret'[1].summary = ret[1].summary
           /\ ret'[1].flagged_images = ret[1].flagged_images]_vars

\* the summary recomputed for an AuditResult with two flagged images of equal
\* issue count and one of a different count
C17_Witness ==
    /\ Aggregating
    /\ call.recomputed
    /\ Len(ret[1].flagged_images) = 3
    /\ \E k \in 1..2 :
           Len(ret[1].flagged_images[k].issues) = Len(ret[1].flagged_images[k + 1].issues)
    /\ \E k \in 1..2 :
           Len(ret[1].flagged_images[k].issues) # Len(ret[1].flagged_images[k + 1].issues)

\* the permutations of 1..n
Perms(n) == { f \in [1..n -> 1..n] : \A i, j \in 1..n : f[i] = f[j] => i = j }

RECURSIVE AddAll(_, _)
\* the AuditResult ar after add_image_result with each result of rs in turn
AddAll(ar, rs) ==
    IF rs = << >> THEN ar ELSE AddAll(add_image_result(ar, Head(rs)), Tail(rs))

FlaggedSet(ar) == { ar.flagged_images[k] : k \in 1..Len(ar.flagged_images) }

\* C18: whatever the order in which the same ImageResults are passed to
\* add_image_result, total_issues, images_with_issues, by_severity, by_type
\* and the set of flagged images come out the same.
C18_OrderIndependent ==
    Aggregating =>
        \A p \in Perms(Len(call.args)) :
            LET other == AddAll(AuditResult_new(MaxResults, MaxResults),
                                [k \in 1..Len(call.args) |-> call.args[p[k]]])
            IN  /\ other.summary = ret[1].summary
                /\ FlaggedSet(other) = FlaggedSet(ret[1])

\* three results added, of different issue counts and severities, so that
\* the six orders differ
C18_Witness ==
    /\ Aggregating
    /\ Len(call.args) = 3
    /\ Len(ret[1].flagged_images) = 2
    /\ Len(call.args[1].issues) # Len(call.args[3].issues)
    /\ Len(call.args[2].issues) # Len(call.args[3].issues)
    /\ high_count(ret[1]) # low_count(ret[1])

\* the position at which the result r was added
AddedAt(r) == CHOOSE n \in 1..Len(call.args) : call.args[n] = r

\* C19: flagged_images holds exactly the added results that have an issue,
\* each once, by issue count descending, results of equal count in the order
\* in which they were added.
C19_FlaggedSorted ==
    Aggregating =>
        LET fl == ret[1].flagged_images
            rs == call.args
        IN  /\ \A n \in 1..Len(rs) :
                   Count(fl, rs[n]) = (IF rs[n].issues # << >> THEN 1 ELSE 0)
            /\ \A k \in 1..Len(fl) : \E n \in 1..Len(rs) : rs[n] = fl[k]
            /\ \A k, l \in 1..Len(fl) :
                   k < l =>
                       /\ Len(fl[k].issues) >= Len(fl[l].issues)
                       /\ Len(fl[k].issues) = Len(fl[l].issues) =>
                              AddedAt(fl[k]) < AddedAt(fl[l])

\* three flagged results, the one with most issues added last, the other two
\* of equal count
C19_Witness ==
    /\ Aggregating
    /\ Len(call.args) = 3
    /\ Len(ret[1].flagged_images) = 3
    /\ ret[1].flagged_images[1] = call.args[3]
    /\ Len(call.args[1].issues) = Len(call.args[2].issues)
    /\ Len(call.args[3].issues) > Len(call.args[1].issues)

\* ------------------------------------------------------------------------
\* The run under fair scheduling: a worker that can take the session lock
\* does not wait forever while it stays free, and an inference call that has
\* started returns.
\* ------------------------------------------------------------------------
FairSpec ==
    /\ Spec
    /\ \A i \in 1..MaxImages : WF_vars(i \in 1..N /\ YoloLock(i))
    /\ \A i \in 1..MaxImages : WF_vars(i \in 1..N /\ YoloInfer(i))

\* the workers inside session.run (between the lock and the guard's drop)
InFlight == { i \in 1..N : pc[i] = "locked" }

\* worker i waits in self.session.lock()
Waiting(i) == i \in 1..N /\ pc[i] = "loaded"

\* C20: in every interleaving of the workers that share one YoloDetector at
\* most one inference call is in flight on the session at any time, and no
\* worker waits for the session forever.
C20_SessionExclusive ==
    /\ [](Cardinality(InFlight) <= 1 /\ \A i \in InFlight : session = i)
    /\ \A i \in 1..MaxImages : Waiting(i) ~> ~Waiting(i)

\* one worker inside session.run while another waits for the lock
C20_Witness ==
    \E i, j \in 1..N :
        /\ detector = "yolo"
        /\ pc[i] = "locked"
        /\ session = i
        /\ pc[j] = "loaded"

\* the methods run_validate has a detector for
SupportedMethods == { "yolo", "byom", "zero-shot" }

\* a configuration error: a model-based method without a model path, or a
\* method for which there is no detector (the method is the one the run
\* uses: --model makes it "yolo" whatever --method says)
ConfigError(method, model_path) ==
    LET m == effective_method(method, model_path)
    IN  \/ m \in { "yolo", "byom" } /\ model_path = "none"
        \/ m \notin SupportedMethods

Untouched ==
    /\ \A i \in 1..N : pc[i] = "queued" /\ results[i] = Pending /\ opened[i] = "no"
    /\ session = 0
    /\ audit_result = None
    /\ detector = "none"

S_Clothing == << "C", "l", "o", "t", "h", "i", "n", "g" >>

S_Boot == << "B", "o", "o", "t" >>

S_Footwear == << "F", "o", "o", "t", "w", "e", "a", "r" >>

S_Man == << "M", "a", "n" >>

S_Person == << "P", "e", "r", "s", "o", "n" >>

S_Luggage == << "L", "u", "g", "g", "a", "g", "e" >>

\* class names: those of test_class_equivalence, a name that is only a part
\* of a group member ("Luggage"), a name of no group ("dog") and the empty
\* name
NamePool ==
    { S_Dress, S_Clothing, S_Boot, S_Footwear, S_Man, S_Person, S_person,
      S_Luggage, S_purse, S_dog, << >> }

InitEquiv ==
    /\ NoRun
    /\ call \in { [fn |-> "classes_equivalent", args |-> << n1, n2 >>] :
                    n1 \in NamePool, n2 \in NamePool }
    /\ ret = None

\* YoloDetector::classes_equivalent(class1, class2)
CallClassesEquivalent ==
    /\ call.fn = "classes_equivalent"
    /\ ret = None
    /\ ret' = Some(classes_equivalent(call.args[1], call.args[2]))
    /\ UNCHANGED << call, run_vars >>

NextEquiv == CallClassesEquivalent

EquivSpec == InitEquiv /\ [][NextEquiv]_vars

\* ------------------------------------------------------------------------
\* Properties of classes_equivalent
\* ------------------------------------------------------------------------
EquivReturned == call.fn = "classes_equivalent" /\ ret # None

\* the letters a and b are the same up to case
SameLetter(a, b) ==
    \/ a = b
    \/ \E k \in 1..Len(Upper) : { a, b } = { Upper[k], Lower[k] }

EqualIgnoringCase(n1, n2) ==
    /\ Len(n1) = Len(n2)
    /\ \A i \in 1..Len(n1) : SameLetter(n1[i], n2[i])

\* p is a contiguous part of s
IsSubstring(p, s) ==
    \E i \in 1..(Len(s) + 1), j \in 0..Len(s) : SubSeq(s, i, j) = p

\* the name n belongs to the synonym group g
Belongs(n, g) ==
    \E k \in 1..Len(g) :
        \/ to_lowercase(n) = g[k]
        \/ IsSubstring(g[k], to_lowercase(n))
        \/ IsSubstring(to_lowercase(n), g[k])

\* C22: classes_equivalent(n1, n2) is true exactly when the names are equal
\* ignoring case or some synonym group has both as members, a name being a
\* member when, lower-cased, it equals, contains or is contained in a word
\* of the group; Dress~Clothing, Boot~Footwear and Man~Person are
\* equivalent, Boot and Dress are not.
C22_ClassesEquivalentRule ==
    EquivReturned =>
        LET n1 == call.args[1]
            n2 == call.args[2]
        IN  /\ ret[1] <=>
                   \/ EqualIgnoringCase(n1, n2)
                   \/ \E g \in 1..Len(groups) : Belongs(n1, groups[g]) /\ Belongs(n2, groups[g])
            /\ << n1, n2 >> \in { << S_Dress, S_Clothing >>, << S_Boot, S_Footwear >>,
                                  << S_Man, S_Person >>, << S_person, S_Person >> } =>
                   ret[1]
            /\ << n1, n2 >> = << S_Boot, S_Dress >> => ~ret[1]

\* two names of one group, one of them only a part of a group word
C22_Witness ==
    /\ EquivReturned
    /\ call.args = << S_Luggage, S_purse >>
    /\ ret[1]

\* Boot and Dress, of different groups
C22_WitnessDifferent ==
    /\ EquivReturned
    /\ call.args = << S_Boot, S_Dress >>
    /\ ~ret[1]

RECURSIVE OkResults(_)
\* the ImageResults of the images 1..k whose audit returned Ok, in image
\* order
OkResults(k) ==
    IF k = 0 THEN << >>
    ELSE OkResults(k - 1) \o
         (IF results[k].tag = "Ok" THEN << results[k].ok[1] >> ELSE << >>)

\* C23: in every interleaving of the workers each selected image is audited
\* once (its result is written once and never changes, and the aggregation
\* starts only when every image has its result), and the AuditResult is a
\* function of the per-image results alone: the results added in image order,
\* so its counts and the order of flagged_images, ties included, are the same
\* in every run on the same inputs.
C23_AuditedOnceDeterministic ==
    /\ [][\A i \in 1..N :
              /\ results[i] # Pending => results'[i] = results[i]
              /\ pc[i] = "done" => pc'[i] = "done"]_vars
    /\ [](phase \in { "aggregating", "done" } =>
              /\ \A i \in 1..N : pc[i] = "done" /\ results[i] # Pending
              /\ \A i \in 1..N : Len(AggregatedFor(i)) <= 1
              /\ audit_result[1] =
                     AddAll(AuditResult_new(N, N), OkResults(next_result - 1)))

\* a finished run over two images whose results have the same number of
\* issues, so that the order of flagged_images is decided by the tie-break
C23_Witness ==
    /\ phase = "done"
    /\ N = 2
    /\ Len(audit_result[1].flagged_images) = 2
    /\ Len(audit_result[1].flagged_images[1].issues) =
           Len(audit_result[1].flagged_images[2].issues)
    /\ audit_result[1].flagged_images[1].filename = 1

\* ------------------------------------------------------------------------
\* The inner loop of YoloDetector::audit_image on its own: the search for
\* the best annotation of one detection
\* ------------------------------------------------------------------------
\* the longest annotation list given to the search
MaxGt == 3

\* label lines with boxes at IoU 1, 3/10, 1/5, 1/21 and 0 from the detections
GtLines == { Line(2, BoxA), Line(1, BoxB), Line(1, BoxD), Line(2, BoxC) }

MatchDets == { Detection(S_dog, 90, BoxA), Detection(S_dog, 90, BoxB) }

InitMatch ==
    /\ NoRun
    /\ call \in { [fn |-> "best_gt", args |-> << det, load_annotations(content) >>] :
                    det \in MatchDets, content \in SeqsUpTo(GtLines, MaxGt) }
    /\ ret = None

\* for (idx, ann) in annotations.iter().enumerate() { .. }, from
\* best_iou = 0.0 and best_gt_idx = None
CallBestGt ==
    /\ call.fn = "best_gt"
    /\ ret = None
    /\ ret' = Some(best_gt(call.args[1], call.args[2], 1, << Zero, None >>))
    /\ UNCHANGED << call, run_vars >>

NextMatch == CallBestGt

MatchSpec == InitMatch /\ [][NextMatch]_vars

\* ------------------------------------------------------------------------
\* Properties of the search
\* ------------------------------------------------------------------------
BestGtReturned == call.fn = "best_gt" /\ ret # None

\* the IoU of the detection of the call with its k-th annotation
IouWith(k) == iou(call.args[1].bbox, call.args[2][k].bbox)

\* C24: the matcher selects the annotation of maximum IoU with the
\* detection, the first of them in the annotation list when several share
\* the maximum, and never an annotation whose IoU with the detection is 0.
C24_MaxIouFirst ==
    BestGtReturned =>
        LET anns == call.args[2]
            best_iou == ret[1][1]
            best_gt_idx == ret[1][2]
        IN  /\ best_gt_idx = None <=> \A k \in 1..Len(anns) : IouWith(k) = Zero
            /\ best_gt_idx # None =>
                   LET j == best_gt_idx[1]
                   IN  /\ j \in 1..Len(anns)
                       /\ best_iou = IouWith(j)
                       /\ QGt(IouWith(j), Zero)
                       /\ \A k \in 1..Len(anns) : QGe(IouWith(j), IouWith(k))
                       /\ \A k \in 1..(j - 1) : QGt(IouWith(j), IouWith(k))

\* three annotations, the second and the third at the same IoU, larger than
\* that of the first: the second is selected
C24_Witness ==
    /\ BestGtReturned
    /\ Len(call.args[2]) = 3
    /\ IouWith(2) = IouWith(3)
    /\ QGt(IouWith(2), IouWith(1))
    /\ QGt(IouWith(1), Zero)
    /\ ret[1][2] = Some(2)

\* annotations that all have IoU 0 with the detection: none is selected
C24_WitnessNone ==
    /\ BestGtReturned
    /\ Len(call.args[2]) = 2
    /\ ret[1][2] = None

\* the order of the stable sort by confidence descending: the permutation p
\* of the positions of s with the larger confidence first and, at equal
\* confidence, the earlier position first
StableDescending(s) ==
    CHOOSE p \in Perms(Len(s)) :
        \A k, l \in 1..Len(s) :
            k < l => \/ s[p[k]].confidence > s[p[l]].confidence
                     \/ /\ s[p[k]].confidence = s[p[l]].confidence
                        /\ p[k] < p[l]

RECURSIVE GreedyKept(_, _, _)
\* the greedy walk over the sorted list s: position i is kept unless an
\* earlier kept position of the same class name has IoU with it strictly
\* above the threshold
GreedyKept(s, t, i) ==
    \A j \in 1..(i - 1) :
        ~(/\ GreedyKept(s, t, j)
          /\ s[j].class_name = s[i].class_name
          /\ QGt(iou(s[j].bbox, s[i].bbox), t))

RECURSIVE KeptUpTo(_, _, _)
KeptUpTo(s, t, i) ==
    IF i = 0 THEN << >>
    ELSE KeptUpTo(s, t, i - 1) \o (IF GreedyKept(s, t, i) THEN << s[i] >> ELSE << >>)

\* the reference procedure
GreedyNms(in, t) ==
    LET p == StableDescending(in)
        s == [k \in 1..Len(in) |-> in[p[k]]]
    IN  KeptUpTo(s, t, Len(s))

\* C25: non_max_suppression returns what the reference greedy procedure
\* returns: the detections sorted by confidence descending, equal
\* confidences in their original order, each kept unless an earlier kept
\* detection of the same class name has IoU with it strictly above
\* iou_threshold.
C25_NmsIsGreedy ==
    NmsReturned => ret[1] = GreedyNms(call.args[1], call.args[2])

\* two detections of one class and equal confidence whose IoU equals the
\* threshold: both kept, in their original order
C25_Witness ==
    /\ NmsReturned
    /\ Len(call.args[1]) = 2
    /\ call.args[1][1].class_name = call.args[1][2].class_name
    /\ call.args[1][1].confidence = call.args[1][2].confidence
    /\ call.args[1][1] # call.args[1][2]
    /\ iou(call.args[1][1].bbox, call.args[1][2].bbox) = call.args[2]
    /\ ret[1] = call.args[1]

\* C26: the output of non_max_suppression holds only detections of the
\* input, none more often than the input does; it is ordered by
\* non-increasing confidence; no two kept detections of one class name have
\* IoU above iou_threshold; and every dropped detection has a kept detection
\* of its class name, of confidence at least as high, whose IoU with it is
\* above iou_threshold.
C26_NmsPostcondition ==
    NmsReturned =>
        LET in == call.args[1]
            t == call.args[2]
            out == ret[1]
        IN  /\ \A k \in 1..Len(out) : Count(out, out[k]) <= Count(in, out[k])
            /\ \A k \in 1..(Len(out) - 1) : out[k].confidence >= out[k + 1].confidence
            /\ \A k, l \in 1..Len(out) :
                   (k # l /\ out[k].class_name = out[l].class_name) =>
                       ~QGt(iou(out[k].bbox, out[l].bbox), t)
            /\ \A i \in 1..Len(in) :
                   Count(out, in[i]) < Count(in, in[i]) =>
                       \E k \in 1..Len(out) :
                           /\ out[k].class_name = in[i].class_name
                           /\ out[k].confidence >= in[i].confidence
                           /\ QGt(iou(out[k].bbox, in[i].bbox), t)

\* three detections given in ascending confidence, one of them dropped
C26_Witness ==
    /\ NmsReturned
    /\ Len(call.args[1]) = 3
    /\ call.args[1][1].confidence < call.args[1][2].confidence
    /\ call.args[1][2].confidence < call.args[1][3].confidence
    /\ Len(ret[1]) = 2

\* what the matcher is to report for the detection d of image i:
\* "MissingLabel" without an annotation at IoU >= 3/10, "ClassMismatch" when
\* the class of its annotation is not equivalent, else "none"
KindFor(i, d) ==
    LET m == MatchOf(d, annotations[i])
    IN  IF m = 0 THEN "MissingLabel"
        ELSE IF classes_equivalent(d.class_name, annotations[i][m].class_name)
             THEN "none"
             ELSE "ClassMismatch"

\* the detections of image i that give rise to an issue, in detection order
Reported(i) == SelectSeq(detections[i], LAMBDA d : KindFor(i, d) # "none")

\* C27: for an image audited by the model-based matcher every detection
\* gives at most one issue (ClassMismatch or MissingLabel) and every
\* annotation at most one SpuriousLabel, so there are at most
\* detection_count + gt_count issues; the issues are those of the detections
\* in detection order followed by the SpuriousLabel issues in annotation
\* order; gt_count and detection_count are the lengths of the two lists.
C27_IssueListShape ==
    \A i \in 1..N :
        (detector = "yolo" /\ Audited(i)) =>
            LET r == ResultOf(i)
                m == Len(Reported(i))
            IN  /\ r.gt_count = Len(annotations[i])
                /\ r.detection_count = Len(detections[i])
                /\ Len(r.issues) <= r.detection_count + r.gt_count
                /\ m <= Len(detections[i])
                /\ Len(Undetected(i)) <= Len(annotations[i])
                /\ Len(r.issues) = m + Len(Undetected(i))
                /\ \A k \in 1..m :
                       /\ r.issues[k].issue_type = KindFor(i, Reported(i)[k])
                       /\ r.issues[k].detected_class = Some(Reported(i)[k].class_name)
                       /\ r.issues[k].confidence = Some(Reported(i)[k].confidence)
                /\ \A k \in 1..Len(Undetected(i)) :
                       /\ r.issues[m + k].issue_type = "SpuriousLabel"
                       /\ r.issues[m + k].line_num = Some(Undetected(i)[k].line_num)

\* two detections and two annotations giving a MissingLabel, then a
\* ClassMismatch, then a SpuriousLabel
C27_Witness ==
    \E i \in 1..N :
        /\ detector = "yolo"
        /\ Audited(i)
        /\ ResultOf(i).gt_count = 2
        /\ ResultOf(i).detection_count = 2
        /\ Len(ResultOf(i).issues) = 3
        /\ ResultOf(i).issues[1].issue_type = "MissingLabel"
        /\ ResultOf(i).issues[2].issue_type = "ClassMismatch"
        /\ ResultOf(i).issues[3].issue_type = "SpuriousLabel"

=============================================================================
